---------------------------- MODULE Spec2Model ----------------------------
(***************************************************************************)
(* A model of src/video_generator.py. The specifications share the         *)
(* module's variables; each leaves the other parts' variables at their     *)
(* idle values.                                                            *)
(*   Spec         main(): startup, the row loop, the results CSV, exit     *)
(*   SpecRetry    one call of a function wrapped by retry_on_failure       *)
(*   SpecEncode   one call of write_video_atomic on a small file system    *)
(*   SpecScroll   the frames of build_smooth_natural_scroll                *)
(*   SpecWorker   get_worker_id over the starts of the worker's process    *)
(*   SpecOverlay  size and position of the overlay in the frame            *)
(*   SpecRemote   one call of a decorated function that uses the bucket    *)
(*   SpecRecycle  the browser over the rows of the loop                    *)
(*   SpecHold     the background clip beyond the scroll's 10 seconds       *)
(***************************************************************************)
EXTENDS Integers, Sequences, FiniteSets, TLC

VARIABLES
    \* ---- module-level configuration (lines 161-173)
    WORKER_ID, TOTAL_WORKERS, HEADLESS_MODE, r2_config,
    \* ---- main(): locals and the worker's environment
    pc,            \* position of main()
    r2_client,     \* TRUE: setup_r2_client returned a client, FALSE: None
    rows,          \* load_rows(csv_path): the niche of each row, in input order
    overlays,      \* niche -> TRUE (a local path) / FALSE (None or absent)
    i,             \* enumerate(rows, 1) index of the current row (0: before the loop)
    results, successful, failed,
    final_path,    \* "none" | "outvid" | "alt"
    landing_url,   \* [k: "unbound" | "none" | "url", row: row the url belongs to]
    video_url,     \* same shape
    comp,          \* "none" | "set": the CompositeVideoClip of the current row
    raised,        \* "none" | "perm" | "other": exception caught at line 1152
    exit_code,     \* -1 while main() runs, else its return value
    raised_at,     \* pc at which an exception escaped to line 1215 ("none" if none)
    res_csv,       \* <<>> while RESULTS_worker<id>.csv is absent, else <<records>>
    exists_remote, \* whether <username>/video.mp4 was in the bucket when the row was reached
    calls,         \* the capture/encode/upload calls made for the current row
    visited,       \* 0-based positions of the rows the loop has entered
    validation,    \* "pending" | "passed" | "failed": validate_system_requirements
    remote_puts,   \* kinds of objects this run has put into the bucket
    shot,          \* the current row's screenshot file: "absent" | "empty" | "present"
    \* ---- retry_on_failure.wrapper
    r_pc, max_attempts, delay, backoff, attempt, current_delay,
    func_fails,    \* the wrapped function: it raises on its first func_fails calls
    func_calls,    \* outcome of each call of func so far: "ok" | "raise"
    sleeps,        \* the argument of each time.sleep so far
    r_result,      \* [k: "none" | "value" | "exc", call: number of the call it came from]
    \* ---- write_video_atomic
    e_pc,
    e_out_path,    \* the out_path argument: "outvid" | "alt"
    e_comp,        \* the comp argument: "none" | "set"
    e_probe,       \* "none" | "listed" | "not_listed" | "error"
    use_nvenc, vcodec,
    renders,       \* the codec of each write_videofile call that reached the encoder
    temp_file,     \* <out>.tmp.mp4: "absent" | "stale" | "partial" | "empty" | "new"
    out_file,      \* out_path: "absent" | "old" | "stale" | "empty" | "new"
    e_raised_at,   \* "none" | "render" | "unlink" | "rename"
    \* ---- build_smooth_natural_scroll: one frame of the clip
    s_pc,          \* "idle" | "call" | "static" | "scroll" | "frame"
    s_img_h,       \* height of the screenshot (pixels)
    s_t,           \* frame time, in ticks of 1/60 second
    s_jitter,      \* int(random.gauss(0, 1.0)) of the frame
    s_offset,      \* first image row shown by the frame
    \* ---- get_worker_id in one process
    w_pc,          \* "idle" | "env" | "started" | "stopped"
    w_env,         \* os.environ: what WORKER_ID and SALAD_MACHINE_ID hold
    w_id,          \* what get_worker_id returned in the running process
    w_before,      \* what it returned in the process before the restart (-1: none)
    w_starts,      \* number of process starts so far
    \* ---- main(): placement of the overlay (lines 1105-1116)
    o_pc,          \* "idle" | "call" | "placed"
    o_w, o_h,      \* face_full.w, face_full.h
    o_face_w, o_scaled_h, o_x, o_y,
    \* ---- a remote call behind retry_on_failure
    t_kind,        \* which decorated function is called ("none": no call)
    t_remote,      \* outcome of each request sent so far: "ok" | "raise"
    \* ---- main(): the browser over the rows of the loop
    b_pc,          \* "idle" | "loop" | "capture" | "recycle" | "done"
    b_rows,        \* len(rows)
    b_i,           \* index of the current row
    b_served,      \* rows whose capture the current browser instance has made
    \* ---- main(): the background clip (lines 1089-1102)
    h_pc,          \* "idle" | "call" | "frozen" | "frame"
    h_img_h,       \* height of the screenshot
    h_overlay,     \* overlay_duration, in ticks of 1/60 second
    h_final,       \* the offset of final_frame (-1: not taken yet)
    h_t,           \* time of the background frame
    h_offset       \* its offset

mainVars == << pc, r2_client, rows, overlays, i, results, successful, failed,
               final_path, landing_url, video_url, comp, raised, exit_code,
               raised_at, res_csv, exists_remote, calls, visited,
               validation, remote_puts, shot >>
cfgVars == << WORKER_ID, TOTAL_WORKERS, HEADLESS_MODE, r2_config >>
retryVars == << r_pc, max_attempts, delay, backoff, attempt, current_delay,
                func_fails, func_calls, sleeps, r_result >>
encVars == << e_pc, e_out_path, e_comp, e_probe, use_nvenc, vcodec, renders,
              temp_file, out_file, e_raised_at >>
scrollVars == << s_pc, s_img_h, s_t, s_jitter, s_offset >>
widVars == << w_pc, w_env, w_id, w_before, w_starts >>
overlayVars == << o_pc, o_w, o_h, o_face_w, o_scaled_h, o_x, o_y >>
remoteVars == << t_kind, t_remote >>
recycleVars == << b_pc, b_rows, b_i, b_served >>
holdVars == << h_pc, h_img_h, h_overlay, h_final, h_t, h_offset >>
restVars == << overlayVars, remoteVars, recycleVars, holdVars >>
auxVars == << scrollVars, widVars, restVars >>
vars == << cfgVars, mainVars, retryVars, encVars, auxVars >>

-----------------------------------------------------------------------------
(* Bounds of the model *)
MaxRows == 2
MaxWorkers == 2
MaxAttempts == 4
MaxDelay == 2
MaxScrollDist == 3
MaxJitter == 2
TailTicks == 2
MaxStarts == 2
MaxHash == 2
MaxCycles == 2

Niches == {"a", "b"}

Unbound == [k |-> "unbound", row |-> 0]
NoneVal == [k |-> "none", row |-> 0]
Url(r) == [k |-> "url", row |-> r]

-----------------------------------------------------------------------------
(* Idle values of the parts a specification does not run *)
RetryIdle ==
    /\ r_pc = "idle" /\ max_attempts = 0 /\ delay = 0 /\ backoff = 0
    /\ attempt = 0 /\ current_delay = 0 /\ func_fails = 0
    /\ func_calls = << >> /\ sleeps = << >>
    /\ r_result = [k |-> "none", call |-> 0]

EncIdle ==
    /\ e_pc = "idle" /\ e_out_path = "outvid" /\ e_comp = "none"
    /\ e_probe = "none" /\ use_nvenc = FALSE /\ vcodec = "none"
    /\ renders = << >> /\ temp_file = "absent" /\ out_file = "absent"
    /\ e_raised_at = "none"

MainIdle ==
    /\ pc = "idle" /\ r2_client = FALSE /\ rows = << >>
    /\ overlays = [n \in Niches |-> FALSE] /\ i = 0 /\ results = << >>
    /\ successful = 0 /\ failed = 0 /\ final_path = "none"
    /\ landing_url = Unbound /\ video_url = Unbound /\ comp = "none"
    /\ raised = "none" /\ exit_code = -1 /\ raised_at = "none"
    /\ res_csv = << >> /\ exists_remote = FALSE /\ calls = {} /\ visited = {}
    /\ validation = "pending" /\ remote_puts = {} /\ shot = "absent"

CfgIdle ==
    /\ WORKER_ID = 0 /\ TOTAL_WORKERS = 1 /\ HEADLESS_MODE = FALSE
    /\ r2_config = FALSE

ScrollIdle ==
    /\ s_pc = "idle" /\ s_img_h = 0 /\ s_t = 0 /\ s_jitter = 0
    /\ s_offset = 0

\* An environment variable that is unset or blank, one that holds the decimal
\* integer n, one that holds a UUID whose upper 64 bits are n, and one that
\* holds the n-th other string.
EnvUnset == [kind |-> "unset", val |-> 0]
EnvNum(n) == [kind |-> "num", val |-> n]
EnvUuid(n) == [kind |-> "uuid", val |-> n]
EnvText(n) == [kind |-> "text", val |-> n]

WidIdle ==
    /\ w_pc = "idle"
    /\ w_env = [worker_id |-> EnvUnset, salad_id |-> EnvUnset]
    /\ w_id = 0 /\ w_before = -1 /\ w_starts = 0

OverlayIdle ==
    /\ o_pc = "idle" /\ o_w = 0 /\ o_h = 0 /\ o_face_w = 0 /\ o_scaled_h = 0
    /\ o_x = 0 /\ o_y = 0

RemoteIdle == t_kind = "none" /\ t_remote = << >>

RecycleIdle == b_pc = "idle" /\ b_rows = 0 /\ b_i = 0 /\ b_served = 0

HoldIdle ==
    /\ h_pc = "idle" /\ h_img_h = 0 /\ h_overlay = 0 /\ h_final = -1
    /\ h_t = 0 /\ h_offset = 0

RestIdle == OverlayIdle /\ RemoteIdle /\ RecycleIdle /\ HoldIdle

AuxIdle == ScrollIdle /\ WidIdle /\ RestIdle


-----------------------------------------------------------------------------
(* main(): helpers *)

\* One outcome record (lines 1021-1026, 1036-1041, 1046-1051, 1165-1170,
\* 1174-1179, 1200-1205): the row it is for, its "Video Link" and, for a
\* landing-page link, the row whose landing page the link points to.
Outcome(row, link, of) == [row |-> row, link |-> link, of |-> of]

\* An exception escapes the row loop to "except Exception" (lines 1215-1217).
Fatal(at) ==
    /\ exit_code' = 1
    /\ raised_at' = at
    /\ pc' = "exit"

\* Mutant of FailRow: the record is appended but the row is not counted.
FailRowNoCount(link) ==
    /\ results' = Append(results, Outcome(i, link, i))
    /\ failed' = failed
    /\ pc' = "loop"

\* results.append(...); failed += 1; continue
FailRow(link) ==
    /\ results' = Append(results, Outcome(i, link, i))
    /\ failed' = failed + 1
    /\ pc' = "loop"

\* The "Video Link" expression of line 1204.
VideoLink ==
    IF landing_url.k = "url" THEN Outcome(i, "landing", landing_url.row)
    ELSE IF final_path # "none" THEN Outcome(i, "file_uri", i)
    ELSE Outcome(i, "FAILED", i)

\* Browser restart every 50 videos (line 1056).
RecycleEvery == 50

-----------------------------------------------------------------------------
(* main(): one action per step *)

\* Mutant of Validate: a failed validation is logged and main goes on.
ValidateContinues ==
    /\ pc = "validate"
    /\ \E ffmpeg_ok \in BOOLEAN, modules_ok \in BOOLEAN :
          IF ffmpeg_ok /\ modules_ok /\ (HEADLESS_MODE => r2_config)
          THEN pc' = "setup" /\ validation' = "passed" /\ UNCHANGED exit_code
          ELSE pc' = "setup" /\ validation' = "failed" /\ UNCHANGED exit_code
    /\ UNCHANGED << r2_client, rows, overlays, i, results, successful, failed,
                    final_path, landing_url, video_url, comp, raised,
                    raised_at, res_csv, exists_remote, calls, visited >>
    /\ UNCHANGED << remote_puts, shot >>
    /\ UNCHANGED << cfgVars, retryVars, encVars, auxVars >>

\* validate_system_requirements() and main's handler of its RuntimeError.
Validate ==
    /\ pc = "validate"
    /\ \E ffmpeg_ok \in BOOLEAN, modules_ok \in BOOLEAN :
          IF ffmpeg_ok /\ modules_ok /\ (HEADLESS_MODE => r2_config)
          THEN pc' = "setup" /\ validation' = "passed" /\ UNCHANGED exit_code
          ELSE pc' = "exit" /\ validation' = "failed" /\ exit_code' = 1
    /\ UNCHANGED << r2_client, rows, overlays, i, results, successful, failed,
                    final_path, landing_url, video_url, comp, raised,
                    raised_at, res_csv, exists_remote, calls, visited >>
    /\ UNCHANGED << remote_puts, shot >>
    /\ UNCHANGED << cfgVars, retryVars, encVars, auxVars >>

\* Lines 892-983: the R2 client, the CSV and the overlays (headless) or the
\* picked files (interactive), load_rows, the output directory.
Setup ==
    /\ pc = "setup"
    /\ \E ok \in BOOLEAN, client \in BOOLEAN, n \in 1..MaxRows :
       \E rs \in [1..n -> Niches], ov \in [Niches -> BOOLEAN] :
          /\ client => r2_config
          /\ IF ok /\ (HEADLESS_MODE => client)
             THEN /\ pc' = "launch"
                  /\ r2_client' = client
                  /\ rows' = rs
                  /\ overlays' = IF HEADLESS_MODE THEN ov
                                 ELSE [x \in Niches |-> TRUE]
                  /\ UNCHANGED exit_code
             ELSE /\ pc' = "exit"
                  /\ exit_code' = 1
                  /\ UNCHANGED << r2_client, rows, overlays >>
    /\ UNCHANGED << i, results, successful, failed, final_path, landing_url,
                    video_url, comp, raised, raised_at, res_csv,
                    exists_remote, calls, visited >>
    /\ UNCHANGED << validation, remote_puts, shot >>
    /\ UNCHANGED << cfgVars, retryVars, encVars, auxVars >>

\* Lines 985-1002: sync_playwright(), launch, new_context, new_page.
LaunchBrowser ==
    /\ pc = "launch"
    /\ \E ok \in BOOLEAN :
          IF ok THEN pc' = "loop" /\ UNCHANGED << exit_code, raised_at >>
          ELSE Fatal("launch")
    /\ UNCHANGED << r2_client, rows, overlays, i, results, successful, failed,
                    final_path, landing_url, video_url, comp, raised, res_csv,
                    exists_remote, calls, visited >>
    /\ UNCHANGED << validation, remote_puts, shot >>
    /\ UNCHANGED << cfgVars, retryVars, encVars, auxVars >>

\* Mutant of RowStart: the overlay lookup is not made.
RowStartIgnoresOverlay ==
    /\ pc = "loop"
    /\ i < Len(rows)
    /\ i' = i + 1
    /\ visited' = visited \cup {i}
    /\ calls' = {}
    /\ \E ex \in BOOLEAN : exists_remote' = ex
    /\ IF FALSE
       THEN /\ results' = Append(results,
                                 Outcome(i + 1, "FAILED - Missing overlay", i + 1))
            /\ failed' = failed + 1
            /\ pc' = "loop"
       ELSE /\ pc' = "capture"
            /\ UNCHANGED << results, failed >>
    /\ UNCHANGED << r2_client, rows, overlays, successful, final_path,
                    landing_url, video_url, comp, raised, exit_code,
                    raised_at, res_csv >>
    /\ shot' = "absent"
    /\ UNCHANGED << validation, remote_puts >>
    /\ UNCHANGED << cfgVars, retryVars, encVars, auxVars >>

\* Lines 1003-1030: the loop takes the next row (every row of the list, in
\* order) and looks up its overlay.
RowStart ==
    /\ pc = "loop"
    /\ i < Len(rows)
    /\ i' = i + 1
    /\ visited' = visited \cup {i}
    /\ calls' = {}
    /\ \E ex \in BOOLEAN : exists_remote' = ex
    /\ IF HEADLESS_MODE /\ ~overlays[rows[i + 1]]
       THEN /\ results' = Append(results,
                                 Outcome(i + 1, "FAILED - Missing overlay", i + 1))
            /\ failed' = failed + 1
            /\ pc' = "loop"
       ELSE /\ pc' = "capture"
            /\ UNCHANGED << results, failed >>
    /\ UNCHANGED << r2_client, rows, overlays, successful, final_path,
                    landing_url, video_url, comp, raised, exit_code,
                    raised_at, res_csv >>
    /\ shot' = "absent"
    /\ UNCHANGED << validation, remote_puts >>
    /\ UNCHANGED << cfgVars, retryVars, encVars, auxVars >>

\* Lines 1032-1053: capture_fullpage_png returns True (the screenshot file is
\* there and not empty) or False, or raises (the file is missing or empty).
Capture ==
    /\ pc = "capture"
    /\ calls' = calls \cup {"capture"}
    /\ \E res \in {"true", "false", "raise"}, file \in {"absent", "empty"} :
          CASE res = "true" ->
                 /\ pc' = "optimize"
                 /\ shot' = "present"
                 /\ UNCHANGED << results, failed >>
            [] res = "false" ->
                 FailRow("FAILED - Screenshot failed") /\ shot' = file
            [] res = "raise" ->
                 FailRow("FAILED - exception") /\ shot' = file
    /\ UNCHANGED << r2_client, rows, overlays, i, successful, final_path,
                    landing_url, video_url, comp, raised, exit_code,
                    raised_at, res_csv, exists_remote, visited >>
    /\ UNCHANGED << validation, remote_puts >>
    /\ UNCHANGED << cfgVars, retryVars, encVars, auxVars >>

\* Lines 1055-1085: the browser restart (its errors are caught at line 1074),
\* ensure_overlay_optimized (outside every try of the row: cache_dir.mkdir may
\* raise) and the reset of the row's clip variables.
Optimize ==
    /\ pc = "optimize"
    /\ \E restart_ok \in BOOLEAN, mkdir_ok \in BOOLEAN :
          /\ (i % RecycleEvery # 0) => restart_ok
          /\ IF mkdir_ok
             THEN /\ pc' = "render"
                  /\ comp' = "none"
                  /\ final_path' = "none"
                  /\ UNCHANGED << exit_code, raised_at >>
             ELSE /\ Fatal("optimize")
                  /\ UNCHANGED << comp, final_path >>
    /\ UNCHANGED << r2_client, rows, overlays, i, results, successful, failed,
                    landing_url, video_url, raised, res_csv, exists_remote,
                    calls, visited >>
    /\ UNCHANGED << validation, remote_puts, shot >>
    /\ UNCHANGED << cfgVars, retryVars, encVars, auxVars >>

\* Lines 1087-1126: the clips are built and write_video_atomic is called.
\* An exception before the composition exists leaves comp None; one raised by
\* write_video_atomic leaves it set. The message may hold "Permission denied".
Render ==
    /\ pc = "render"
    /\ \E where \in {"build", "write", "none"}, msg \in {"perm", "other"} :
          CASE where = "none" ->
                 /\ comp' = "set"
                 /\ calls' = calls \cup {"encode"}
                 /\ final_path' = "outvid"
                 /\ pc' = "thumbnail"
                 /\ UNCHANGED raised
            [] where = "build" ->
                 /\ raised' = msg
                 /\ pc' = "except"
                 /\ UNCHANGED << comp, calls, final_path >>
            [] where = "write" ->
                 /\ comp' = "set"
                 /\ calls' = calls \cup {"encode"}
                 /\ raised' = msg
                 /\ pc' = "except"
                 /\ UNCHANGED final_path
    /\ UNCHANGED << r2_client, rows, overlays, i, results, successful, failed,
                    landing_url, video_url, exit_code, raised_at, res_csv,
                    exists_remote, visited >>
    /\ UNCHANGED << validation, remote_puts, shot >>
    /\ UNCHANGED << cfgVars, retryVars, encVars, auxVars >>

\* Lines 1128-1135: extract_thumbnail and, with a client, upload_thumbnail_to_r2;
\* every exception is caught at line 1134.
Thumbnail ==
    /\ pc = "thumbnail"
    /\ \E extracted \in BOOLEAN, put \in BOOLEAN :
          /\ calls' = IF extracted /\ r2_client
                      THEN calls \cup {"upload_thumbnail"} ELSE calls
          /\ remote_puts' = IF extracted /\ r2_client /\ put
                            THEN remote_puts \cup {"thumbnail.jpg"}
                            ELSE remote_puts
    /\ pc' = "upload"
    /\ UNCHANGED << r2_client, rows, overlays, i, results, successful, failed,
                    final_path, landing_url, video_url, comp, raised,
                    exit_code, raised_at, res_csv, exists_remote, visited >>
    /\ UNCHANGED << validation, shot >>
    /\ UNCHANGED << cfgVars, retryVars, encVars, auxVars >>

\* Mutant of Upload: create_landing_page is called whatever upload_to_r2 gave.
UploadLandingAlways ==
    /\ pc = "upload"
    /\ \E up \in {"url", "none", "raise"}, lp \in {"url", "none", "raise"} :
          IF ~r2_client
          THEN /\ video_url' = NoneVal
               /\ landing_url' = NoneVal
               /\ UNCHANGED << calls, remote_puts >>
          ELSE /\ video_url' = IF up = "url" THEN Url(i) ELSE NoneVal
               /\ landing_url' = IF up = "url" /\ lp = "url" THEN Url(i)
                                 ELSE NoneVal
               /\ calls' = calls \cup {"upload_video"}
                             \cup {"landing_page"}
               /\ remote_puts' = remote_puts
                     \cup (IF up = "url" THEN {"video.mp4"} ELSE {})
                     \cup (IF up = "url" /\ lp = "url" THEN {"index.html"} ELSE {})
    /\ successful' = successful + 1
    /\ pc' = "record"
    /\ UNCHANGED << r2_client, rows, overlays, i, results, failed, final_path,
                    comp, raised, exit_code, raised_at, res_csv,
                    exists_remote, visited >>
    /\ UNCHANGED << validation, shot >>
    /\ UNCHANGED << cfgVars, retryVars, encVars, auxVars >>

\* Lines 1137-1150 and the finally of line 1182: upload_to_r2 and
\* create_landing_page; an exception of either is caught at line 1147.
Upload ==
    /\ pc = "upload"
    /\ \E up \in {"url", "none", "raise"}, lp \in {"url", "none", "raise"} :
          IF ~r2_client
          THEN /\ video_url' = NoneVal
               /\ landing_url' = NoneVal
               /\ UNCHANGED << calls, remote_puts >>
          ELSE /\ video_url' = IF up = "url" THEN Url(i) ELSE NoneVal
               /\ landing_url' = IF up = "url" /\ lp = "url" THEN Url(i)
                                 ELSE NoneVal
               /\ calls' = calls \cup {"upload_video"}
                             \cup (IF up = "url" THEN {"landing_page"} ELSE {})
               /\ remote_puts' = remote_puts
                     \cup (IF up = "url" THEN {"video.mp4"} ELSE {})
                     \cup (IF up = "url" /\ lp = "url" THEN {"index.html"} ELSE {})
    /\ successful' = successful + 1
    /\ pc' = "record"
    /\ UNCHANGED << r2_client, rows, overlays, i, results, failed, final_path,
                    comp, raised, exit_code, raised_at, res_csv,
                    exists_remote, visited >>
    /\ UNCHANGED << validation, shot >>
    /\ UNCHANGED << cfgVars, retryVars, encVars, auxVars >>

\* Lines 1152-1189: the handler of a render error. "Permission denied" in the
\* message: write_video_atomic again, to unique_path(outvid); with comp None
\* that call raises (None has no write_videofile).
Except ==
    /\ pc = "except"
    /\ raised' = "none"
    /\ IF raised = "perm"
       THEN \E ok \in BOOLEAN :
               /\ (comp = "none") => ~ok
               /\ calls' = IF comp = "set" THEN calls \cup {"encode"} ELSE calls
               /\ IF ok
                  THEN /\ final_path' = "alt"
                       /\ successful' = successful + 1
                       /\ pc' = "record"
                       /\ UNCHANGED << results, failed >>
                  ELSE /\ FailRow("FAILED - exception")
                       /\ UNCHANGED << final_path, successful >>
       ELSE /\ FailRow("FAILED - exception")
            /\ UNCHANGED << final_path, successful, calls >>
    /\ UNCHANGED << r2_client, rows, overlays, i, landing_url, video_url, comp,
                    exit_code, raised_at, res_csv, exists_remote, visited >>
    /\ UNCHANGED << validation, remote_puts, shot >>
    /\ UNCHANGED << cfgVars, retryVars, encVars, auxVars >>

\* Lines 1191-1206: the row's record is built from landing_url and final_path
\* and appended. Reading landing_url while it was never assigned raises
\* UnboundLocalError, which escapes to line 1215.
Record ==
    /\ pc = "record"
    /\ IF landing_url.k = "unbound"
       THEN /\ Fatal("record")
            /\ UNCHANGED results
       ELSE /\ results' = Append(results, VideoLink)
            /\ pc' = "loop"
            /\ UNCHANGED << exit_code, raised_at >>
    /\ UNCHANGED << r2_client, rows, overlays, i, successful, failed,
                    final_path, landing_url, video_url, comp, raised, res_csv,
                    exists_remote, calls, visited >>
    /\ UNCHANGED << validation, remote_puts, shot >>
    /\ UNCHANGED << cfgVars, retryVars, encVars, auxVars >>

\* Lines 1208-1210: after the last row, context.close() and browser.close().
CloseBrowser ==
    /\ pc = "loop"
    /\ i = Len(rows)
    /\ \E ok \in BOOLEAN :
          IF ok THEN pc' = "write_csv" /\ UNCHANGED << exit_code, raised_at >>
          ELSE Fatal("closing")
    /\ UNCHANGED << r2_client, rows, overlays, i, results, successful, failed,
                    final_path, landing_url, video_url, comp, raised, res_csv,
                    exists_remote, calls, visited >>
    /\ UNCHANGED << validation, remote_puts, shot >>
    /\ UNCHANGED << cfgVars, retryVars, encVars, auxVars >>

\* Lines 1219-1228: the results CSV is written once, after the loop; an error
\* while writing is logged and the file is not produced.
WriteResults ==
    /\ pc = "write_csv"
    /\ \E ok \in BOOLEAN : res_csv' = IF ok THEN results ELSE res_csv
    /\ pc' = "summary"
    /\ UNCHANGED << r2_client, rows, overlays, i, results, successful, failed,
                    final_path, landing_url, video_url, comp, raised,
                    exit_code, raised_at, exists_remote, calls, visited >>
    /\ UNCHANGED << validation, remote_puts, shot >>
    /\ UNCHANGED << cfgVars, retryVars, encVars, auxVars >>

\* Lines 1230-1245: return 0 if failed == 0 else 2.
Return ==
    /\ pc = "summary"
    /\ exit_code' = IF failed = 0 THEN 0 ELSE 2
    /\ pc' = "exit"
    /\ UNCHANGED << r2_client, rows, overlays, i, results, successful, failed,
                    final_path, landing_url, video_url, comp, raised,
                    raised_at, res_csv, exists_remote, calls, visited >>
    /\ UNCHANGED << validation, remote_puts, shot >>
    /\ UNCHANGED << cfgVars, retryVars, encVars, auxVars >>

\* Lines 1212-1214: KeyboardInterrupt anywhere inside the try of line 985.
Interrupt ==
    /\ pc \in {"launch", "loop", "capture", "optimize", "render", "thumbnail",
               "upload", "except", "record"}
    /\ exit_code' = 130
    /\ pc' = "exit"
    /\ UNCHANGED << r2_client, rows, overlays, i, results, successful, failed,
                    final_path, landing_url, video_url, comp, raised,
                    raised_at, res_csv, exists_remote, calls, visited >>
    /\ UNCHANGED << validation, remote_puts, shot >>
    /\ UNCHANGED << cfgVars, retryVars, encVars, auxVars >>

\* The module-level configuration (lines 161-173) and the entry of main().
Init ==
    /\ WORKER_ID \in 0..MaxWorkers
    /\ TOTAL_WORKERS \in 1..MaxWorkers
    /\ HEADLESS_MODE \in BOOLEAN
    /\ r2_config \in BOOLEAN
    /\ pc = "validate" /\ r2_client = FALSE /\ rows = << >>
    /\ overlays = [n \in Niches |-> FALSE] /\ i = 0 /\ results = << >>
    /\ successful = 0 /\ failed = 0 /\ final_path = "none"
    /\ landing_url = Unbound /\ video_url = Unbound /\ comp = "none"
    /\ raised = "none" /\ exit_code = -1 /\ raised_at = "none"
    /\ res_csv = << >> /\ exists_remote = FALSE /\ calls = {} /\ visited = {}
    /\ validation = "pending" /\ remote_puts = {} /\ shot = "absent"
    /\ RetryIdle
    /\ EncIdle
    /\ AuxIdle

Next ==
    \/ Validate \/ Setup \/ LaunchBrowser \/ RowStart \/ Capture \/ Optimize
    \/ Render \/ Thumbnail \/ Upload \/ Except \/ Record \/ CloseBrowser
    \/ WriteResults \/ Return \/ Interrupt

Spec == Init /\ [][Next]_vars

-----------------------------------------------------------------------------
(* retry_on_failure(max_attempts, delay, backoff, exceptions).wrapper        *)
(* (lines 191-212). The wrapped function raises an exception of the classes  *)
(* in `exceptions` on its first func_fails calls and returns on the next.    *)

Backoffs == {1, 2, 3}

\* Mutant of Returned: the call's value is dropped (func called without
\* "return").
ReturnedDropped(n) == [k |-> "none", call |-> 0]

\* What "return func(*args, **kwargs)" hands back (line 202): the value of
\* the call just made.
Returned(n) == [k |-> "value", call |-> n]

\* Mutant of Exhausted: the test is off by one and never true inside the
\* loop.
ExhaustedNever == attempt > max_attempts

\* The exhaustion test of line 204.
Exhausted == attempt = max_attempts

\* Lines 200-206: the loop test, the call of func, and the handler up to the
\* re-raise on the last attempt.
RetryCall ==
    /\ r_pc = "loop"
    /\ attempt <= max_attempts
    /\ LET n == Len(func_calls) + 1 IN
          IF n > func_fails
          THEN /\ func_calls' = Append(func_calls, "ok")
               /\ r_result' = Returned(n)
               /\ r_pc' = "returned"
          ELSE /\ func_calls' = Append(func_calls, "raise")
               /\ IF Exhausted
                  THEN /\ r_result' = [k |-> "exc", call |-> n]
                       /\ r_pc' = "raised"
                  ELSE /\ r_pc' = "sleep"
                       /\ UNCHANGED r_result
    /\ UNCHANGED << max_attempts, delay, backoff, attempt, current_delay,
                    func_fails, sleeps >>
    /\ UNCHANGED << cfgVars, mainVars, encVars, auxVars >>

\* Mutant of RetrySleep: the delay is multiplied before the sleep.
RetrySleepEarlyBackoff ==
    /\ r_pc = "sleep"
    /\ sleeps' = Append(sleeps, current_delay * backoff)
    /\ current_delay' = current_delay * backoff
    /\ attempt' = attempt + 1
    /\ r_pc' = "loop"
    /\ UNCHANGED << max_attempts, delay, backoff, func_fails, func_calls,
                    r_result >>
    /\ UNCHANGED << cfgVars, mainVars, encVars, auxVars >>

\* Lines 207-210: time.sleep(current_delay); current_delay *= backoff;
\* attempt += 1.
RetrySleep ==
    /\ r_pc = "sleep"
    /\ sleeps' = Append(sleeps, current_delay)
    /\ current_delay' = current_delay * backoff
    /\ attempt' = attempt + 1
    /\ r_pc' = "loop"
    /\ UNCHANGED << max_attempts, delay, backoff, func_fails, func_calls,
                    r_result >>
    /\ UNCHANGED << cfgVars, mainVars, encVars, auxVars >>

\* Line 200 with the loop test false (max_attempts < 1): the wrapper falls off
\* its end and returns None without calling func.
RetryFallOff ==
    /\ r_pc = "loop"
    /\ attempt > max_attempts
    /\ r_result' = [k |-> "none", call |-> 0]
    /\ r_pc' = "returned"
    /\ UNCHANGED << max_attempts, delay, backoff, attempt, current_delay,
                    func_fails, func_calls, sleeps >>
    /\ UNCHANGED << cfgVars, mainVars, encVars, auxVars >>

\* Lines 198-199: attempt = 1; current_delay = delay.
RetryInit ==
    /\ max_attempts \in 0..MaxAttempts
    /\ delay \in 1..MaxDelay
    /\ backoff \in Backoffs
    /\ func_fails \in 0..(MaxAttempts + 1)
    /\ attempt = 1
    /\ current_delay = delay
    /\ func_calls = << >> /\ sleeps = << >>
    /\ r_result = [k |-> "none", call |-> 0]
    /\ r_pc = "loop"
    /\ CfgIdle /\ MainIdle /\ EncIdle /\ AuxIdle

RetryNext == RetryCall \/ RetrySleep \/ RetryFallOff

SpecRetry == RetryInit /\ [][RetryNext]_vars

-----------------------------------------------------------------------------
(* write_video_atomic(comp, out_path, fps, audio_clip, logger)               *)
(* (lines 830-865) on the two files it touches.                              *)

\* Mutant of Codec: the hardware encoder whatever the probe said.
CodecAlwaysNvenc(nvenc) == "h264_nvenc"

\* Lines 843-848.
Codec(nvenc) == IF nvenc THEN "h264_nvenc" ELSE "libx264"

\* Lines 832-848: the encoder probe; a timeout or any error gives
\* use_nvenc = False.
Probe ==
    /\ e_pc = "probe"
    /\ \E res \in {"listed", "not_listed", "error"} :
          /\ e_probe' = res
          /\ use_nvenc' = (res = "listed")
          /\ vcodec' = Codec(res = "listed")
    /\ e_pc' = "render"
    /\ UNCHANGED << e_out_path, e_comp, renders, temp_file, out_file,
                    e_raised_at >>
    /\ UNCHANGED << cfgVars, mainVars, retryVars, auxVars >>

\* Lines 850-858: comp.write_videofile(temp, codec=vcodec, ...), called once.
\* With comp None the call raises before any encoder runs. An encoder that
\* fails raises; the file it was writing is left as it is (untouched, or
\* partly written). Nothing in the function catches the exception. A call
\* that returns has written the file, complete or with nothing in it, or has
\* not touched it: the function never looks at the file's size and provides
\* for a missing file (line 860 tests exists()).
RenderVideo ==
    /\ e_pc = "render"
    /\ IF e_comp = "none"
       THEN /\ e_pc' = "raised"
            /\ e_raised_at' = "render"
            /\ UNCHANGED << renders, temp_file >>
       ELSE /\ renders' = Append(renders, vcodec)
            /\ \E ok \in BOOLEAN, written \in {"all", "some", "nothing"} :
                  IF ok
                  THEN /\ temp_file' = CASE written = "all" -> "new"
                                          [] written = "some" -> "empty"
                                          [] written = "nothing" -> temp_file
                       /\ e_pc' = "publish"
                       /\ UNCHANGED e_raised_at
                  ELSE /\ temp_file' = IF written = "nothing" THEN temp_file
                                       ELSE "partial"
                       /\ e_pc' = "raised"
                       /\ e_raised_at' = "render"
    /\ UNCHANGED << e_out_path, e_comp, e_probe, use_nvenc, vcodec, out_file >>
    /\ UNCHANGED << cfgVars, mainVars, retryVars, auxVars >>

\* Mutant of Publish: out_path is unlinked before temp is looked at.
PublishUnlinksFirst ==
    /\ e_pc = "publish"
    /\ \E unlink_ok \in BOOLEAN, rename_ok \in BOOLEAN :
          IF temp_file = "absent"
          THEN /\ e_pc' = "returned"
               /\ out_file' = "absent"
               /\ UNCHANGED << temp_file, e_raised_at >>
          ELSE IF out_file # "absent" /\ ~unlink_ok
          THEN /\ e_pc' = "raised"
               /\ e_raised_at' = "unlink"
               /\ UNCHANGED << temp_file, out_file >>
          ELSE IF ~rename_ok
          THEN /\ e_pc' = "raised"
               /\ e_raised_at' = "rename"
               /\ out_file' = "absent"
               /\ UNCHANGED temp_file
          ELSE /\ e_pc' = "returned"
               /\ out_file' = temp_file
               /\ temp_file' = "absent"
               /\ UNCHANGED e_raised_at
    /\ UNCHANGED << e_out_path, e_comp, e_probe, use_nvenc, vcodec, renders >>
    /\ UNCHANGED << cfgVars, mainVars, retryVars, auxVars >>

\* Lines 860-865: if temp exists, unlink out_path if it exists, rename temp
\* to out_path; return out_path. unlink and rename may raise.
Publish ==
    /\ e_pc = "publish"
    /\ \E unlink_ok \in BOOLEAN, rename_ok \in BOOLEAN :
          IF temp_file = "absent"
          THEN /\ e_pc' = "returned"
               /\ UNCHANGED << temp_file, out_file, e_raised_at >>
          ELSE IF out_file # "absent" /\ ~unlink_ok
          THEN /\ e_pc' = "raised"
               /\ e_raised_at' = "unlink"
               /\ UNCHANGED << temp_file, out_file >>
          ELSE IF ~rename_ok
          THEN /\ e_pc' = "raised"
               /\ e_raised_at' = "rename"
               /\ out_file' = "absent"
               /\ UNCHANGED temp_file
          ELSE /\ e_pc' = "returned"
               /\ out_file' = temp_file
               /\ temp_file' = "absent"
               /\ UNCHANGED e_raised_at
    /\ UNCHANGED << e_out_path, e_comp, e_probe, use_nvenc, vcodec, renders >>
    /\ UNCHANGED << cfgVars, mainVars, retryVars, auxVars >>

\* The call: main passes outvid (line 1125) or unique_path(outvid) (line
\* 1161); comp is None when the clips could not be built (line 1083); either
\* file may be there already.
EncodeInit ==
    /\ e_pc = "probe"
    /\ e_out_path \in {"outvid", "alt"}
    /\ e_comp \in {"none", "set"}
    /\ e_probe = "none" /\ use_nvenc = FALSE /\ vcodec = "none"
    /\ renders = << >>
    /\ temp_file \in {"absent", "stale"}
    /\ out_file \in IF e_out_path = "alt" THEN {"absent"} ELSE {"absent", "old"}
    /\ e_raised_at = "none"
    /\ CfgIdle /\ MainIdle /\ RetryIdle /\ AuxIdle

EncodeNext == Probe \/ RenderVideo \/ Publish

SpecEncode == EncodeInit /\ [][EncodeNext]_vars

-----------------------------------------------------------------------------
(* Claims about the row loop of main(), checked under Spec *)

\* C1: a worker with index w in [0, T) processes exactly the rows at the
\* positions p with p mod T = w: once the loop has finished, the positions it
\* entered are those and no others.
C1_RowsPartitioned ==
    (pc = "exit" /\ exit_code \in {0, 2} /\ WORKER_ID < TOTAL_WORKERS)
        => visited = {p \in 0..(Len(rows) - 1) : p % TOTAL_WORKERS = WORKER_ID}

\* C2: for a row whose output was already in remote storage when the row was
\* reached, no capture, encode or upload call is made.
C2_ExistingRowSkipped ==
    exists_remote => calls = {}

\* C3: no error raised while a row is processed (overlay optimisation, render,
\* building the outcome record) escapes the row loop, so main never returns 1
\* because of a per-row error.
C3_RowErrorsCaught ==
    ~(exit_code = 1 /\ raised_at \in {"optimize", "record"})

\* C4: whenever the processing of a row has ended on one of the paths missing
\* overlay, capture failure, render failure, alternate-path render or success,
\* exactly one record has been appended for each row entered so far, in input
\* order. (Left aside: a run interrupted mid-row, and a row ended by an error
\* of ensure_overlay_optimized, which is on none of these paths.)
C4_OneRecordPerRow ==
    (pc \in {"loop", "write_csv", "summary"}
       \/ (pc = "exit" /\ exit_code # 130 /\ raised_at # "optimize"))
        => /\ Len(results) = i
           /\ \A k \in 1..Len(results) : results[k].row = k

\* C5: between rows, and when the worker has stopped on a fatal error or an
\* interrupt, the result file holds the outcome of every completed row.
C5_ResultsWrittenPerRow ==
    (pc = "loop" \/ (pc = "exit" /\ exit_code \in {1, 130}))
        => res_csv = results

-----------------------------------------------------------------------------
(* Claims about retry_on_failure, checked under SpecRetry *)

RetryDone == r_pc \in {"returned", "raised"}

\* C6: a function that raises on its first k calls, k < max_attempts, and
\* succeeds on call k+1: the wrapper returns the result of call k+1, having
\* called the function exactly k+1 times and slept exactly k times.
C6_RetryReturnsAfterKFailures ==
    (RetryDone /\ func_fails < max_attempts)
        => /\ r_pc = "returned"
           /\ r_result = [k |-> "value", call |-> func_fails + 1]
           /\ Len(func_calls) = func_fails + 1
           /\ \A n \in 1..func_fails : func_calls[n] = "raise"
           /\ func_calls[func_fails + 1] = "ok"
           /\ Len(sleeps) = func_fails

C6_Witness ==
    /\ r_pc = "returned"
    /\ max_attempts = 3
    /\ func_fails = 2
    /\ Len(func_calls) = 3
    /\ Len(sleeps) = 2

\* C7: a function that raises on every call, with max_attempts = m >= 1: the
\* wrapper calls it exactly m times and raises the exception of call m,
\* without sleeping after the last failure; the function is never called more
\* than max_attempts times, and the wrapper always has a next step until it
\* has returned or raised.
C7_RetryRaisesAfterMaxAttempts ==
    /\ Len(func_calls) <= max_attempts
    /\ (~RetryDone) => ENABLED RetryNext
    /\ (RetryDone /\ max_attempts >= 1 /\ func_fails >= max_attempts)
          => /\ r_pc = "raised"
             /\ Len(func_calls) = max_attempts
             /\ \A n \in 1..max_attempts : func_calls[n] = "raise"
             /\ r_result = [k |-> "exc", call |-> max_attempts]
             /\ Len(sleeps) = max_attempts - 1

C7_Witness ==
    /\ r_pc = "raised"
    /\ max_attempts = 3
    /\ func_fails >= 3
    /\ Len(func_calls) = 3
    /\ Len(sleeps) = 2

\* C8: with backoff 2, the sleep after the n-th failed attempt, for n in
\* 1..max_attempts-1, is delay * 2^(n-1); the delays never decrease.
C8_BackoffDelays ==
    backoff = 2
        => /\ Len(sleeps) <= max_attempts - 1 \/ sleeps = << >>
           /\ \A n \in 1..Len(sleeps) : sleeps[n] = delay * 2 ^ (n - 1)
           /\ \A n \in 1..(Len(sleeps) - 1) : sleeps[n] <= sleeps[n + 1]

C8_Witness ==
    /\ backoff = 2 /\ delay = 2 /\ max_attempts = 3
    /\ r_pc = "raised"
    /\ sleeps = << 2, 4 >>

-----------------------------------------------------------------------------
(* Claims about write_video_atomic, checked under SpecEncode *)

\* C9: whenever the hardware encoder is reported available and the hardware
\* render fails, write_video_atomic renders again with the software encoder.
C9_SoftwareFallback ==
    (e_raised_at = "render" /\ use_nvenc /\ renders # << >>)
        => /\ Len(renders) = 2
           /\ renders[2] = "libx264"

\* C10: whenever write_video_atomic fails because the render raised (and the
\* two paths were free when it was called), neither the temporary file nor
\* the final output path exists when control returns to the caller.
C10_NoFilesAfterFailure ==
    (e_pc = "raised" /\ e_raised_at = "render"
       /\ temp_file # "stale" /\ out_file # "old")
        => temp_file = "absent" /\ out_file = "absent"


\* C11: in every reachable state the final output path is absent or holds a
\* completely encoded video (one that was there before the call, or the one
\* this call renamed into place), never a partial or empty one.
C11_FinalPathAbsentOrComplete ==
    out_file \in {"absent", "old", "new"}

-----------------------------------------------------------------------------
(* build_smooth_natural_scroll(png_path, w, h, duration, fps) (lines         *)
(* 745-802), as main calls it: h = HEIGHT, duration = 10.0 (line 1093).      *)
(* Times are in ticks of 1/60 second and positions in hundredths, so that    *)
(* every keyframe is an integer; the float arithmetic of the code is done    *)
(* exactly, on fractions.                                                    *)

HEIGHT == 720
DurationTicks == 600

\* The keyframes of lines 758-770: (time, position).
Keyframes ==
    << << 0, 0 >>, << 60, 15 >>, << 120, 35 >>, << 180, 60 >>, << 240, 75 >>,
       << 300, 60 >>, << 360, 40 >>, << 420, 50 >>, << 450, 48 >>,
       << 480, 50 >>, << 600, 50 >> >>

Min(a, b) == IF a <= b THEN a ELSE b
Max(a, b) == IF a >= b THEN a ELSE b

\* Lines 772-784: interpolate_position(t), as the fraction << num, den >>.
\* With a = t - t1 and b = t2 - t1, progress = a / b and eased = E / b^2.
InterpolatePosition(t) ==
    LET segs == {k \in 1..(Len(Keyframes) - 1) : t <= Keyframes[k + 1][1]} IN
    IF segs = {} THEN << Keyframes[Len(Keyframes)][2], 100 >>
    ELSE LET k    == CHOOSE x \in segs : \A y \in segs : x <= y
             t1   == Keyframes[k][1]
             pos1 == Keyframes[k][2]
             t2   == Keyframes[k + 1][1]
             pos2 == Keyframes[k + 1][2]
             a    == t - t1
             b    == t2 - t1
         IN  IF b = 0 THEN << pos1, 100 >>
             ELSE LET E == IF 2 * a < b THEN 2 * a * a
                           ELSE b * b - 2 * (b - a) * (b - a)
                  IN  << pos1 * b * b + (pos2 - pos1) * E, 100 * b * b >>

\* Mutant of Clamp: the lower bound is not applied.
ClampUpperOnly(lo, hi, x) == Min(hi, x)

\* Line 792: max(lo, min(hi, x)).
Clamp(lo, hi, x) == Max(lo, Min(hi, x))

\* Lines 787-792: the crop offset of make_frame(t) for a jitter value.
MakeFramePos(scroll_dist, t, jitter) ==
    LET f   == InterpolatePosition(Min(t, DurationTicks))
        pos == (f[1] * scroll_dist) \div f[2]
    IN  Clamp(0, scroll_dist, pos + jitter)

ImgHeights ==
    {HEIGHT - 1, HEIGHT, 3 * HEIGHT}
        \cup {HEIGHT + d : d \in 1..MaxScrollDist}

\* Lines 747-755: the image is opened; one no taller than the frame gives a
\* static clip.
BuildScroll ==
    /\ s_pc = "call"
    /\ s_pc' = IF s_img_h <= HEIGHT THEN "static" ELSE "scroll"
    /\ UNCHANGED << s_img_h, s_t, s_jitter, s_offset >>
    /\ UNCHANGED << cfgVars, mainVars, retryVars, encVars, widVars, restVars >>

\* Line 753: every frame of the static clip is the image at offset 0.
StaticFrame ==
    /\ s_pc = "static"
    /\ s_t < DurationTicks + TailTicks
    /\ s_t' = s_t + 1
    /\ s_offset' = 0
    /\ UNCHANGED << s_pc, s_img_h, s_jitter >>
    /\ UNCHANGED << cfgVars, mainVars, retryVars, encVars, widVars, restVars >>

\* Lines 786-800: make_frame(t) for the next frame time; the jitter is what
\* int(random.gauss(0, 1.0)) yields.
MakeFrame ==
    /\ s_pc \in {"scroll", "frame"}
    /\ LET t == IF s_pc = "scroll" THEN 0 ELSE s_t + 1 IN
          /\ t <= DurationTicks + TailTicks
          /\ s_t' = t
          /\ \E j \in (0 - MaxJitter)..MaxJitter :
                /\ s_jitter' = j
                /\ s_offset' = MakeFramePos(s_img_h - HEIGHT, t, j)
    /\ s_pc' = "frame"
    /\ UNCHANGED s_img_h
    /\ UNCHANGED << cfgVars, mainVars, retryVars, encVars, widVars, restVars >>

ScrollInit ==
    /\ s_pc = "call"
    /\ s_img_h \in ImgHeights
    /\ s_t = 0 /\ s_jitter = 0 /\ s_offset = 0
    /\ CfgIdle /\ MainIdle /\ RetryIdle /\ EncIdle /\ WidIdle /\ RestIdle

ScrollNext == BuildScroll \/ StaticFrame \/ MakeFrame

SpecScroll == ScrollInit /\ [][ScrollNext]_vars

\* C12: the crop offset of every frame lies in [0, imageHeight - frameHeight],
\* jitter included, and is 0 for every frame when the image is no taller than
\* the frame.
C12_OffsetInRange ==
    /\ 0 <= s_offset
    /\ s_offset <= Max(0, s_img_h - HEIGHT)
    /\ s_img_h <= HEIGHT => s_offset = 0

\* A frame of an image one row taller than the frame, whose jitter would have
\* pushed the offset beyond the last row: it is clamped to 1.
C12_Witness ==
    /\ s_pc = "frame"
    /\ s_img_h = HEIGHT + 1
    /\ s_t = 240
    /\ s_jitter = MaxJitter
    /\ s_offset = 1

-----------------------------------------------------------------------------
(* Further claims about main(), checked under Spec *)

\* The files a run has produced: the objects put into the bucket and, once
\* written, the worker's RESULTS_worker<id>.csv (lines 1219-1228).
RunOutputs ==
    remote_puts \cup (IF res_csv # << >> THEN {"RESULTS_worker.csv"} ELSE {})

\* C14: a merge step produces a master result file holding the records of all
\* worker result files. Stated for the job of a single worker, which is then
\* the elected one: once it has finished its loop and written its result
\* file, the master result file is among the files of the run.
C14_MasterFileMerged ==
    (pc = "exit" /\ exit_code \in {0, 2} /\ TOTAL_WORKERS = 1 /\ WORKER_ID = 0
       /\ res_csv # << >>)
        => "MASTER_RESULTS.csv" \in RunOutputs

\* C15: a row whose video upload was attempted and gave no URL (upload_to_r2
\* raised or returned None, with a client configured) is not counted in
\* `successful` and its recorded Video Link is a failure reason, not a link.
C15_UploadFailureRecorded ==
    (pc = "loop" /\ i >= 1 /\ Len(results) = i /\ "upload_video" \in calls
       /\ video_url.k = "none")
        => /\ successful <= i - 1
           /\ results[i].link \notin {"landing", "file_uri"}

\* C16: after a failed startup validation main has returned 1 and nothing else
\* has happened: no row entered, no capture, encode or upload call, no object
\* put into the bucket, no record and no result file.
C16_ValidationFailureIsFatal ==
    validation = "failed"
        => /\ pc = "exit" /\ exit_code = 1
           /\ i = 0 /\ visited = {} /\ calls = {} /\ remote_puts = {}
           /\ results = << >> /\ res_csv = << >>

\* A headless run without the R2 settings has failed validation.
C16_Witness ==
    /\ validation = "failed"
    /\ HEADLESS_MODE /\ ~r2_config
    /\ pc = "exit" /\ exit_code = 1

\* C17: the exit status is 0 exactly when the loop finished and no row failed,
\* 2 exactly when the loop finished and some row failed, and 1 only for an
\* error outside the processing of a row (validation, setup, browser launch or
\* close): no run with a failed row exits with 0, no per-row error with 1.
C17_ExitStatusTellsOutcomes ==
    pc = "exit" =>
        /\ exit_code = 0 =>
              /\ i = Len(rows) /\ Len(results) = i /\ failed = 0
              /\ \A k \in 1..Len(results) :
                    results[k].link \in {"landing", "file_uri"}
        /\ exit_code = 2 =>
              /\ i = Len(rows) /\ Len(results) = i /\ failed >= 1
        /\ exit_code = 1 => raised_at \in {"none", "launch", "closing"}

\* C18: a capture that fails (returns False or raises) appends exactly one
\* record, a failed one for the current row, adds one to `failed`, leaves
\* `successful` alone, makes no encode and no upload call and puts nothing into
\* the bucket, and hands control back to the loop at the same row index.
C18_CaptureFailure ==
    [][(pc = "capture" /\ pc' \notin {"optimize", "exit"})
         => /\ pc' = "loop"
            /\ Len(results') = Len(results) + 1
            /\ SubSeq(results', 1, Len(results)) = results
            /\ results'[Len(results')].row = i
            /\ results'[Len(results')].link
                  \in {"FAILED - Screenshot failed", "FAILED - exception"}
            /\ failed' = failed + 1
            /\ successful' = successful
            /\ calls' = {"capture"}
            /\ remote_puts' = remote_puts
            /\ i' = i /\ exit_code' = exit_code]_vars

\* The second row was reached after the capture of the first had failed, and
\* its capture failed too.
C18_Witness ==
    /\ pc = "loop" /\ i = 2 /\ Len(results) = 2
    /\ results[1].link = "FAILED - Screenshot failed"
    /\ results[2].link = "FAILED - exception"
    /\ failed = 2 /\ successful = 0
    /\ calls = {"capture"}

\* C19: in headless mode, entering a row whose niche has no overlay appends
\* the record 'FAILED - Missing overlay' for it, adds one to `failed`, makes no
\* capture, encode or upload call, puts nothing into the bucket and hands
\* control back to the loop; main does not exit.
C19_MissingOverlay ==
    [][(pc = "loop" /\ i' = i + 1 /\ HEADLESS_MODE /\ ~overlays[rows[i + 1]])
         => /\ pc' = "loop"
            /\ results' = Append(results,
                  Outcome(i + 1, "FAILED - Missing overlay", i + 1))
            /\ failed' = failed + 1
            /\ successful' = successful
            /\ calls' = {}
            /\ remote_puts' = remote_puts
            /\ exit_code' = exit_code]_vars

\* No overlay was downloaded; both rows were entered and recorded as missing
\* their overlay, without a call.
C19_Witness ==
    /\ HEADLESS_MODE
    /\ \A n \in Niches : ~overlays[n]
    /\ pc = "loop" /\ i = 2 /\ Len(results) = 2
    /\ \A k \in 1..2 : results[k].link = "FAILED - Missing overlay"
    /\ failed = 2 /\ successful = 0 /\ calls = {}

-----------------------------------------------------------------------------
(* get_worker_id() and uuid_to_worker_id() (lines 28-73), called once when   *)
(* the module is loaded (line 161), in every process of the worker.          *)

WorkerIdRange == 10000

Abs(x) == IF x < 0 THEN 0 - x ELSE x

\* Lines 28-44: a UUID gives (uuid.int >> 64) % 10000; any other string gives
\* abs(hash(s)) % 10000, where h is what hash(s) is in the calling process.
UuidToWorkerId(v, h) ==
    IF v.kind = "uuid" THEN v.val % WorkerIdRange
    ELSE Abs(h) % WorkerIdRange

\* Lines 46-73: WORKER_ID if set (the integer, or the conversion of the
\* string), else SALAD_MACHINE_ID if set, else 0.
GetWorkerId(env, h) ==
    IF env.worker_id.kind = "num" THEN env.worker_id.val
    ELSE IF env.worker_id.kind # "unset" THEN UuidToWorkerId(env.worker_id, h)
    ELSE IF env.salad_id.kind # "unset" THEN UuidToWorkerId(env.salad_id, h)
    ELSE 0

\* What an environment variable may hold.
EnvValues ==
    {EnvUnset}
        \cup {EnvNum(n) : n \in {0, 1, WorkerIdRange}}
        \cup {EnvUuid(n) : n \in {0, WorkerIdRange - 1, WorkerIdRange + 1}}
        \cup {EnvText(n) : n \in 1..2}

\* The values hash() of a string may have in a process: str hashes are salted
\* with a value drawn when the interpreter starts.
Hashes ==
    ((0 - MaxHash)..MaxHash)
        \cup {WorkerIdRange + 1, 0 - (WorkerIdRange + 1)}

\* The process starts: the module is loaded and line 161 sets WORKER_ID.
StartProcess ==
    /\ w_pc \in {"env", "stopped"}
    /\ w_starts < MaxStarts
    /\ \E h \in Hashes : w_id' = GetWorkerId(w_env, h)
    /\ w_before' = w_id
    /\ w_starts' = w_starts + 1
    /\ w_pc' = "started"
    /\ UNCHANGED w_env
    /\ UNCHANGED << cfgVars, mainVars, retryVars, encVars, scrollVars, restVars >>

\* The process ends; the container restarts it with the same environment.
StopProcess ==
    /\ w_pc = "started"
    /\ w_pc' = "stopped"
    /\ UNCHANGED << w_env, w_id, w_before, w_starts >>
    /\ UNCHANGED << cfgVars, mainVars, retryVars, encVars, scrollVars, restVars >>

WorkerInit ==
    /\ w_pc = "env"
    /\ w_env \in [worker_id : EnvValues, salad_id : EnvValues]
    /\ w_id = 0 /\ w_before = -1 /\ w_starts = 0
    /\ CfgIdle /\ MainIdle /\ RetryIdle /\ EncIdle /\ ScrollIdle /\ RestIdle

WorkerNext == StartProcess \/ StopProcess

SpecWorker == WorkerInit /\ [][WorkerNext]_vars

\* C20: the worker index is a function of the environment identity: a numeric
\* WORKER_ID gives that integer, any other identity string gives an integer in
\* 0..9999, and a restart of the process with the same environment gives the
\* same index as the start before it.
C20_WorkerIdStable ==
    /\ w_starts >= 1 =>
          /\ w_env.worker_id.kind = "num" => w_id = w_env.worker_id.val
          /\ (w_env.worker_id.kind \in {"uuid", "text"}
                \/ (w_env.worker_id.kind = "unset"
                      /\ w_env.salad_id.kind \in {"uuid", "text"}))
                => w_id \in 0..(WorkerIdRange - 1)
    /\ (w_starts >= 2 /\ w_env.worker_id.kind \in {"uuid", "text"})
          => w_before = w_id

-----------------------------------------------------------------------------
(* main(): size and position of the overlay in the frame (lines 1105-1116).  *)
(* Fractions are in integers: OVERLAY_W_FRAC_BASE (0.24) and                 *)
(* OVERLAY_W_JITTER (0.05) in hundredths, random.uniform in thousandths.     *)

WIDTH == 1280
OVERLAY_W_FRAC_BASE == 24
OVERLAY_W_JITTER == 5
OVERLAY_POS_JITTER == 10
SCROLL_MARGIN == 28

\* Lines 1106-1107: max(120, int(WIDTH * width_frac)) with
\* width_frac = OVERLAY_W_FRAC_BASE * (1.0 + u), u = k / 1000.
FaceW(k) ==
    Max(120, (WIDTH * OVERLAY_W_FRAC_BASE * (1000 + k)) \div (100 * 1000))

\* Line 1108: int(face_full.h * (face_w / face_full.w)).
ScaledH(w, h, face_w) == (h * face_w) \div w

\* Lines 1113 and 1115: x after the clamp.
PlaceX(face_w, dx) ==
    Max(SCROLL_MARGIN, Min(WIDTH - face_w - SCROLL_MARGIN, SCROLL_MARGIN + dx))

\* Line 1114: y; no clamp follows.
PlaceY(scaled_h, dy) == HEIGHT - scaled_h - SCROLL_MARGIN + dy

\* Width and height of the overlay video: landscape, square, portrait 9:16,
\* and a banner three times as tall as wide.
OverlaySizes ==
    { << 1280, 720 >>, << 1280, 1280 >>, << 720, 1280 >>, << 1280, 3840 >> }

\* Lines 1105-1116.
PlaceOverlay ==
    /\ o_pc = "call"
    /\ \E k \in (0 - 10 * OVERLAY_W_JITTER)..(10 * OVERLAY_W_JITTER),
          dx \in (0 - OVERLAY_POS_JITTER)..OVERLAY_POS_JITTER,
          dy \in (0 - OVERLAY_POS_JITTER)..OVERLAY_POS_JITTER :
          /\ o_face_w' = FaceW(k)
          /\ o_scaled_h' = ScaledH(o_w, o_h, FaceW(k))
          /\ o_x' = PlaceX(FaceW(k), dx)
          /\ o_y' = PlaceY(ScaledH(o_w, o_h, FaceW(k)), dy)
    /\ o_pc' = "placed"
    /\ UNCHANGED << o_w, o_h >>
    /\ UNCHANGED << cfgVars, mainVars, retryVars, encVars, scrollVars, widVars,
                    remoteVars, recycleVars, holdVars >>

OverlayInit ==
    /\ o_pc = "call"
    /\ \E sz \in OverlaySizes : o_w = sz[1] /\ o_h = sz[2]
    /\ o_face_w = 0 /\ o_scaled_h = 0 /\ o_x = 0 /\ o_y = 0
    /\ CfgIdle /\ MainIdle /\ RetryIdle /\ EncIdle /\ ScrollIdle /\ WidIdle
    /\ RemoteIdle /\ RecycleIdle /\ HoldIdle

OverlayNext == PlaceOverlay

SpecOverlay == OverlayInit /\ [][OverlayNext]_vars

\* C21: for every size jitter, position jitter and overlay aspect ratio the
\* placed overlay rectangle lies wholly inside the frame.
C21_OverlayInsideFrame ==
    o_pc = "placed"
        => /\ 0 <= o_x /\ o_x + o_face_w <= WIDTH
           /\ 0 <= o_y /\ o_y + o_scaled_h <= HEIGHT

-----------------------------------------------------------------------------
(* Further claims about write_video_atomic, checked under SpecEncode *)

\* C22: a file that is at the final output path when the rendered video is
\* to be published is left in place (the new video goes to an alternate
\* name): the step with which the call returns does not remove or replace
\* it.
C22_OccupiedPathLeftInPlace ==
    [][(out_file = "old" /\ e_pc' = "returned") => out_file' = "old"]_vars

\* C24: the encoder probe fails closed: after a probe that timed out, raised
\* or did not list h264_nvenc every render uses libx264; h264_nvenc is the
\* codec only after a probe that completed and listed it; no render starts
\* before the probe has ended.
C24_ProbeFailsClosed ==
    /\ e_probe \in {"not_listed", "error"}
          => /\ vcodec = "libx264"
             /\ \A k \in 1..Len(renders) : renders[k] = "libx264"
    /\ (vcodec = "h264_nvenc"
          \/ \E k \in 1..Len(renders) : renders[k] = "h264_nvenc")
          => e_probe = "listed"
    /\ renders # << >> => e_probe # "none"

\* The probe timed out or raised, and the video was rendered with libx264.
C24_Witness ==
    /\ e_probe = "error"
    /\ renders = << "libx264" >>
    /\ e_pc = "returned"

-----------------------------------------------------------------------------
(* The functions decorated with retry_on_failure that send a request to the  *)
(* bucket: _download_single_overlay (CSV and overlays, line 317),            *)
(* upload_to_r2 (line 369), upload_thumbnail_to_r2 (line 402) and            *)
(* create_landing_page (line 460). The wrapper is the one of SpecRetry; the  *)
(* first func_fails requests raise.                                          *)

RemoteKinds ==
    {"download_csv", "download_overlay", "upload_video", "upload_thumbnail",
     "landing_page"}

\* The arguments of the decorator at lines 317, 369, 402 and 460; backoff is
\* the default of line 191.
DecoratorArgs(kind) ==
    IF kind = "landing_page" THEN [max_attempts |-> 2, delay |-> 1, backoff |-> 2]
    ELSE [max_attempts |-> 3, delay |-> 2, backoff |-> 2]

\* Lines 200-206 with the body of the decorated function: the request is sent;
\* an exception of the request leaves the function, except in
\* create_landing_page, whose own try (lines 604-625) catches it and returns
\* None.
RemoteCall ==
    /\ r_pc = "loop"
    /\ attempt <= max_attempts
    /\ LET n == Len(t_remote) + 1 IN
          IF n > func_fails
          THEN /\ t_remote' = Append(t_remote, "ok")
               /\ func_calls' = Append(func_calls, "ok")
               /\ r_result' = Returned(n)
               /\ r_pc' = "returned"
          ELSE /\ t_remote' = Append(t_remote, "raise")
               /\ IF t_kind = "landing_page"
                  THEN /\ func_calls' = Append(func_calls, "ok")
                       /\ r_result' = [k |-> "none", call |-> n]
                       /\ r_pc' = "returned"
                  ELSE /\ func_calls' = Append(func_calls, "raise")
                       /\ IF Exhausted
                          THEN /\ r_result' = [k |-> "exc", call |-> n]
                               /\ r_pc' = "raised"
                          ELSE /\ r_pc' = "sleep"
                               /\ UNCHANGED r_result
    /\ UNCHANGED << max_attempts, delay, backoff, attempt, current_delay,
                    func_fails, sleeps, t_kind >>
    /\ UNCHANGED << cfgVars, mainVars, encVars, scrollVars, widVars,
                    overlayVars, recycleVars, holdVars >>

RemoteInit ==
    /\ t_kind \in RemoteKinds
    /\ t_remote = << >>
    /\ max_attempts = DecoratorArgs(t_kind).max_attempts
    /\ delay = DecoratorArgs(t_kind).delay
    /\ backoff = DecoratorArgs(t_kind).backoff
    /\ func_fails \in 0..(MaxAttempts + 1)
    /\ attempt = 1
    /\ current_delay = delay
    /\ func_calls = << >> /\ sleeps = << >>
    /\ r_result = [k |-> "none", call |-> 0]
    /\ r_pc = "loop"
    /\ CfgIdle /\ MainIdle /\ EncIdle /\ ScrollIdle /\ WidIdle
    /\ OverlayIdle /\ RecycleIdle /\ HoldIdle

RemoteNext == RemoteCall \/ RetrySleep

SpecRemote == RemoteInit /\ [][RemoteNext]_vars

\* C23: for each kind of remote call, a request that raised is sent again
\* while attempts remain: the call ends with a failed request only after
\* max_attempts requests.
C23_EveryRemoteCallRetried ==
    (r_pc \in {"returned", "raised"} /\ t_remote # << >>
       /\ t_remote[Len(t_remote)] = "raise")
        => Len(t_remote) = max_attempts

-----------------------------------------------------------------------------
(* main(): the background of the composition (lines 1089-1102): the 10       *)
(* second scroll clip, then, for an overlay that lasts longer, a static clip *)
(* that shows final_frame. Times are in ticks of 1/60 second.                *)

FreezeTicks == 594

\* overlay_duration: shorter than the scroll clip, as long, a little longer,
\* three times as long.
OverlayDurations ==
    {DurationTicks - TailTicks, DurationTicks, DurationTicks + TailTicks,
     3 * DurationTicks}

\* Lines 1093-1095: final_frame = scroll_10sec.get_frame(9.9); for a static
\* clip that is the image at offset 0.
FreezeFrame ==
    /\ h_pc = "call"
    /\ \E j \in (0 - MaxJitter)..MaxJitter :
          h_final' = IF h_img_h <= HEIGHT THEN 0
                     ELSE MakeFramePos(h_img_h - HEIGHT, FreezeTicks, j)
    /\ h_pc' = "frozen"
    /\ UNCHANGED << h_img_h, h_overlay, h_t, h_offset >>
    /\ UNCHANGED << cfgVars, mainVars, retryVars, encVars, scrollVars, widVars,
                    overlayVars, remoteVars, recycleVars >>

\* Mutant of BackgroundFrame: after the scroll clip the path starts again.
BackgroundFrameRescrolls ==
    /\ h_pc \in {"frozen", "frame"}
    /\ LET t == IF h_pc = "frozen"
                THEN Max(0, Min(h_overlay, DurationTicks) - TailTicks)
                ELSE h_t + 1
       IN /\ t < h_overlay
          /\ h_t' = t
          /\ \E j \in (0 - MaxJitter)..MaxJitter :
                h_offset' = IF h_img_h <= HEIGHT THEN 0
                            ELSE MakeFramePos(h_img_h - HEIGHT,
                                              t % DurationTicks, j)
    /\ h_pc' = "frame"
    /\ UNCHANGED << h_img_h, h_overlay, h_final >>
    /\ UNCHANGED << cfgVars, mainVars, retryVars, encVars, scrollVars, widVars,
                    overlayVars, remoteVars, recycleVars >>

\* Lines 1096-1102: the frame of the background at the next frame time t
\* (the frames of the first seconds are those of SpecScroll and are left
\* out): a frame of the scroll clip before its end, final_frame from then on.
BackgroundFrame ==
    /\ h_pc \in {"frozen", "frame"}
    /\ LET t == IF h_pc = "frozen"
                THEN Max(0, Min(h_overlay, DurationTicks) - TailTicks)
                ELSE h_t + 1
       IN /\ t < h_overlay
          /\ h_t' = t
          /\ \E j \in (0 - MaxJitter)..MaxJitter :
                h_offset' = IF t >= DurationTicks THEN h_final
                            ELSE IF h_img_h <= HEIGHT THEN 0
                            ELSE MakeFramePos(h_img_h - HEIGHT, t, j)
    /\ h_pc' = "frame"
    /\ UNCHANGED << h_img_h, h_overlay, h_final >>
    /\ UNCHANGED << cfgVars, mainVars, retryVars, encVars, scrollVars, widVars,
                    overlayVars, remoteVars, recycleVars >>

HoldInit ==
    /\ h_pc = "call"
    /\ h_img_h \in ImgHeights
    /\ h_overlay \in OverlayDurations
    /\ h_final = -1 /\ h_t = 0 /\ h_offset = 0
    /\ CfgIdle /\ MainIdle /\ RetryIdle /\ EncIdle /\ ScrollIdle /\ WidIdle
    /\ OverlayIdle /\ RemoteIdle /\ RecycleIdle

HoldNext == FreezeFrame \/ BackgroundFrame

SpecHold == HoldInit /\ [][HoldNext]_vars

\* C25: every background frame after the 10 second span shows final_frame;
\* final_frame is at the position of the last keyframe (give or take the
\* jitter of that one frame, within the image), not at an extrapolated one;
\* interpolate_position gives the last keyframe's position for every t
\* beyond the last keyframe's time.
C25_LastPositionHeld ==
    /\ (h_pc = "frame" /\ h_t >= DurationTicks) => h_offset = h_final
    /\ h_final # -1 =>
          \E j \in (0 - MaxJitter)..MaxJitter :
             h_final = Clamp(0, Max(0, h_img_h - HEIGHT),
                             (Keyframes[Len(Keyframes)][2]
                                 * Max(0, h_img_h - HEIGHT)) \div 100 + j)
    /\ \A t \in (DurationTicks + 1)..(DurationTicks + TailTicks) :
          InterpolatePosition(t) = << Keyframes[Len(Keyframes)][2], 100 >>

\* An overlay of 30 seconds over a tall page: a frame well after the span
\* shows final_frame, which is at the middle of the scroll distance.
C25_Witness ==
    /\ h_pc = "frame"
    /\ h_img_h = 3 * HEIGHT
    /\ h_overlay = 3 * DurationTicks
    /\ h_t = 2 * DurationTicks
    /\ h_final = HEIGHT
    /\ h_offset = HEIGHT

-----------------------------------------------------------------------------
(* main(): the row loop as the browser sees it (lines 1003-1075): which rows *)
(* the current browser instance captures and when it is replaced. What       *)
(* follows the restart test in a row (render, upload, record) does not       *)
(* touch the browser and is left out.                                        *)

\* Lines 1003-1030: the next row; in headless mode a row without overlay is
\* recorded and skipped.
BrowserRowStart ==
    /\ b_pc = "loop"
    /\ b_i < b_rows
    /\ b_i' = b_i + 1
    /\ \E missing \in BOOLEAN : b_pc' = IF missing THEN "loop" ELSE "capture"
    /\ UNCHANGED << b_rows, b_served >>
    /\ UNCHANGED << cfgVars, mainVars, retryVars, encVars, scrollVars, widVars,
                    overlayVars, remoteVars, holdVars >>

\* Lines 1032-1056: the capture; a failed one ends the row (continue), a
\* successful one is followed by the test i % 50 == 0.
BrowserCapture ==
    /\ b_pc = "capture"
    /\ b_served' = b_served + 1
    /\ \E ok \in BOOLEAN :
          b_pc' = IF ok /\ b_i % RecycleEvery = 0 THEN "recycle" ELSE "loop"
    /\ UNCHANGED << b_rows, b_i >>
    /\ UNCHANGED << cfgVars, mainVars, retryVars, encVars, scrollVars, widVars,
                    overlayVars, remoteVars, holdVars >>

\* Lines 1057-1075: close and launch; an error is logged and the row goes on
\* with the browser it has.
BrowserRecycle ==
    /\ b_pc = "recycle"
    /\ \E ok \in BOOLEAN : b_served' = IF ok THEN 0 ELSE b_served
    /\ b_pc' = "loop"
    /\ UNCHANGED << b_rows, b_i >>
    /\ UNCHANGED << cfgVars, mainVars, retryVars, encVars, scrollVars, widVars,
                    overlayVars, remoteVars, holdVars >>

\* Lines 1208-1210: after the last row the browser is closed.
BrowserClose ==
    /\ b_pc = "loop"
    /\ b_i = b_rows
    /\ b_pc' = "done"
    /\ UNCHANGED << b_rows, b_i, b_served >>
    /\ UNCHANGED << cfgVars, mainVars, retryVars, encVars, scrollVars, widVars,
                    overlayVars, remoteVars, holdVars >>

RecycleInit ==
    /\ b_pc = "loop"
    /\ b_rows \in {RecycleEvery, RecycleEvery + 1, MaxCycles * RecycleEvery}
    /\ b_i = 0 /\ b_served = 0
    /\ CfgIdle /\ MainIdle /\ RetryIdle /\ EncIdle /\ ScrollIdle /\ WidIdle
    /\ OverlayIdle /\ RemoteIdle /\ HoldIdle

RecycleNext ==
    BrowserRowStart \/ BrowserCapture \/ BrowserRecycle \/ BrowserClose

SpecRecycle == RecycleInit /\ [][RecycleNext]_vars

\* C26: no browser instance makes the captures of more than 50 rows, whatever
\* the outcomes of the rows.
C26_BrowserRecycledEvery50 ==
    b_served <= RecycleEvery

-----------------------------------------------------------------------------
(* Claims about the row loop of main(), continued (checked under Spec) *)

\* C27: at the end of every row the row's temporary files have been deleted.
\* Stated for the screenshot of a row that completed: once its record is
\* appended, the screenshot file is gone.
C27_RowTempFilesDeleted ==
    (pc = "loop" /\ i >= 1 /\ Len(results) = i
       /\ results[i].link \in {"landing", "file_uri"})
        => shot = "absent"

\* C29: the worker runs its loop with an index 0 <= WORKER_ID < TOTAL_WORKERS
\* and with TOTAL_WORKERS >= 1.
C29_WorkerIndexInRange ==
    pc = "loop"
        => /\ 0 <= WORKER_ID /\ WORKER_ID < TOTAL_WORKERS
           /\ TOTAL_WORKERS >= 1

\* C30: whenever an iteration of the row loop has ended (the loop is between
\* two rows or has finished, or an error raised in the row has ended main),
\* successful + failed is the number of rows entered and the number of
\* records: no row is counted in neither counter.
C30_CountersMatchRecords ==
    (pc \in {"loop", "write_csv", "summary"}
       \/ (pc = "exit" /\ exit_code \in {0, 1, 2}))
        => /\ successful + failed = i
           /\ Cardinality(visited) = i
           /\ Len(results) = i

-----------------------------------------------------------------------------
(* Further claims about get_worker_id, checked under SpecWorker *)

\* C28: a numeric WORKER_ID gives that integer whatever SALAD_MACHINE_ID is;
\* when WORKER_ID gives no numeric id (here: it holds a string that is neither
\* a number nor a UUID) and SALAD_MACHINE_ID holds a UUID, the index is the
\* conversion of SALAD_MACHINE_ID; with neither variable set it is 0.
C28_WorkerIdPriority ==
    w_starts >= 1 =>
        /\ w_env.worker_id.kind = "num" => w_id = w_env.worker_id.val
        /\ (w_env.worker_id.kind = "text" /\ w_env.salad_id.kind = "uuid")
              => w_id = w_env.salad_id.val % WorkerIdRange
        /\ (w_env.worker_id.kind = "unset" /\ w_env.salad_id.kind = "unset")
              => w_id = 0

-----------------------------------------------------------------------------
(* Last claims about main(), checked under Spec *)

\* C31: the Video Link of a row is computed from values of that row: when the
\* record is built landing_url is assigned, and every record's link was made
\* from the landing page or the file of its own row.
C31_LinkFromCurrentRow ==
    /\ pc = "record" =>
          /\ landing_url.k # "unbound"
          /\ landing_url.k = "url" => landing_url.row = i
    /\ \A k \in 1..Len(results) : results[k].of = results[k].row

\* C32: within a row the thumbnail upload comes before the video upload and
\* the landing page after it: the thumbnail is uploaded while neither of the
\* other two calls has been made; create_landing_page is called only with a
\* URL from upload_to_r2; the thumbnail step, whatever it gave, is followed
\* by the upload step, which calls upload_to_r2 when there is a client.
C32_RemoteWriteOrder ==
    [][/\ ("upload_thumbnail" \in calls' /\ "upload_thumbnail" \notin calls)
            => /\ pc = "thumbnail"
               /\ "upload_video" \notin calls' /\ "landing_page" \notin calls'
       /\ ("upload_video" \in calls' /\ "upload_video" \notin calls)
            => pc = "upload"
       /\ ("landing_page" \in calls' /\ "landing_page" \notin calls)
            => /\ pc = "upload"
               /\ "upload_video" \in calls'
               /\ video_url'.k = "url" /\ video_url'.row = i
       /\ (pc = "thumbnail" /\ pc' # "exit") => pc' = "upload"
       /\ (pc = "upload" /\ pc' # "exit" /\ r2_client)
            => "upload_video" \in calls']_vars

\* The thumbnail could not be extracted; the video was uploaded all the same
\* and the landing page after it.
C32_Witness ==
    /\ pc = "record"
    /\ r2_client
    /\ calls = {"capture", "encode", "upload_video", "landing_page"}
    /\ landing_url.k = "url"

-----------------------------------------------------------------------------
(* Last claims about write_video_atomic, checked under SpecEncode *)

\* C33: whenever write_video_atomic has returned normally, the file at the
\* path it returns is the video rendered by that call.
C33_ReturnedPathHoldsNewVideo ==
    e_pc = "returned" => out_file = "new"

\* C34: the file at out_path changes only in the step that publishes, and
\* only when the temporary file exists: a render that fails leaves it as it
\* was.
C34_FinalPathTouchedOnlyAtPublish ==
    [][out_file' # out_file => (e_pc = "publish" /\ temp_file # "absent")]_vars

\* The render failed after it had begun to write the temporary file; the
\* file that was at the final path is still there.
C34_Witness ==
    /\ e_pc = "raised" /\ e_raised_at = "render"
    /\ temp_file = "partial"
    /\ out_file = "old"

=============================================================================
